---- MODULE Spec2Model ----
(***************************************************************************)
(* Genre Mapper plugin (src/__init__.py): the pair-list builder (refresh), *)
(* the wildcard compiler (_make_re), the per-track genre rewriter          *)
(* (track_genre_mapper), the options page's save and the legacy settings   *)
(* migration (enable / migrate_settings).                                  *)
(*                                                                         *)
(* A Python str is a sequence of one-character strings.  None is the       *)
(* Python None: a value no str equals.                                     *)
(***************************************************************************)
EXTENDS Naturals, Sequences, FiniteSets

None == <<"None">>

\* ------------------------------------------------------------------------
\* Python str primitives used by the plugin.
\* ------------------------------------------------------------------------

\* Characters str.strip() removes (the ones the alphabets below contain).
Whitespace == {" ", "\n", "\r", "\t"}

\* The cased characters of the alphabets below.
Letters == {"a", "b", "A", "B"}

lower(c) == CASE c = "A" -> "a" [] c = "B" -> "b" [] OTHER -> c

upper(c) == CASE c = "a" -> "A" [] c = "b" -> "B" [] OTHER -> c

\* Code point of a character: the order sorted() compares strings by.
ord(c) ==
  CASE c = "\t" -> 9 [] c = "\n" -> 10 [] c = "\r" -> 13 [] c = " " -> 32
    [] c = "$" -> 36 [] c = "*" -> 42 [] c = "." -> 46 [] c = "/" -> 47
    [] c = ";" -> 59 [] c = "=" -> 61 [] c = "?" -> 63 [] c = "A" -> 65
    [] c = "B" -> 66 [] c = "[" -> 91 [] c = "\\" -> 92 [] c = "^" -> 94
    [] c = "a" -> 97 [] c = "b" -> 98 [] OTHER -> 127

\* s[i:] of Python, 1-based.
Tail_from(s, i) == SubSeq(s, i, Len(s))

\* str.strip(): drop leading and trailing whitespace.
RECURSIVE lstrip(_)
lstrip(s) == IF s # <<>> /\ Head(s) \in Whitespace THEN lstrip(Tail(s)) ELSE s

RECURSIVE rstrip(_)
rstrip(s) ==
  IF s # <<>> /\ s[Len(s)] \in Whitespace THEN rstrip(SubSeq(s, 1, Len(s) - 1)) ELSE s

strip(s) == rstrip(lstrip(s))

\* str.replace(old, new) for a one-character old.
RECURSIVE replace(_, _, _)
replace(s, old, new) ==
  IF s = <<>> THEN <<>>
  ELSE (IF Head(s) = old THEN new ELSE <<Head(s)>>) \o replace(Tail(s), old, new)

\* Whether sep occurs in s at position i.
startswith_at(s, i, sep) ==
  /\ i + Len(sep) - 1 <= Len(s)
  /\ SubSeq(s, i, i + Len(sep) - 1) = sep

\* str.split(sep) for a non-empty sep: cut at each leftmost occurrence.
RECURSIVE split_from(_, _, _, _)
split_from(s, sep, i, cur) ==
  IF i > Len(s) THEN <<cur>>
  ELSE IF startswith_at(s, i, sep)
       THEN <<cur>> \o split_from(s, sep, i + Len(sep), <<>>)
       ELSE split_from(s, sep, i + 1, Append(cur, s[i]))

split(s, sep) == split_from(s, sep, 1, <<>>)

\* str.title(): a cased character is upper-cased after an uncased one (or at
\* the start) and lower-cased after a cased one.
RECURSIVE title_from(_, _)
title_from(s, prev_cased) ==
  IF s = <<>> THEN <<>>
  ELSE <<IF Head(s) \in Letters
           THEN (IF prev_cased THEN lower(Head(s)) ELSE upper(Head(s)))
           ELSE Head(s)>>
       \o title_from(Tail(s), Head(s) \in Letters)

title(s) == title_from(s, FALSE)

\* s < t for two str: lexicographic by code point, a proper prefix first.
RECURSIVE str_less(_, _)
str_less(s, t) ==
  IF t = <<>> THEN FALSE
  ELSE IF s = <<>> THEN TRUE
  ELSE IF ord(Head(s)) # ord(Head(t)) THEN ord(Head(s)) < ord(Head(t))
  ELSE str_less(Tail(s), Tail(t))

\* sorted(a set of str): repeatedly take the least element.
RECURSIVE sorted(_)
sorted(S) ==
  IF S = {} THEN <<>>
  ELSE LET m == CHOOSE x \in S : \A y \in S \ {x} : str_less(x, y)
       IN  <<m>> \o sorted(S \ {m})

\* ------------------------------------------------------------------------
\* re.search(pattern, string, re.IGNORECASE) for the pattern syntax the
\* plugin's inputs use here: literals, '.', '^', '$', the quantifiers '*'
\* and '?' (with a lazy '?' suffix), backslash escapes of punctuation, and
\* '[' opening a character set that nothing closes.
\* ------------------------------------------------------------------------

re_error == [ok |-> FALSE, items |-> <<>>]

\* sre_parse: the pattern as items [k, c, q], or re.error.
RECURSIVE re_parse_from(_, _, _)
re_parse_from(p, i, acc) ==
  IF i > Len(p) THEN [ok |-> TRUE, items |-> acc]
  ELSE LET c == p[i] IN
    CASE c = "\\" ->
           IF i = Len(p) THEN re_error  \* bad escape (end of pattern)
           ELSE re_parse_from(p, i + 2,
                  Append(acc, [k |-> "lit", c |-> p[i + 1], q |-> "one"]))
      [] c = "[" -> re_error            \* unterminated character set
      [] c \in {"*", "?"} ->
           IF acc = <<>> \/ acc[Len(acc)].k \in {"bol", "eol"}
             THEN re_error              \* nothing to repeat
           ELSE IF acc[Len(acc)].q # "one"
             THEN re_error              \* multiple repeat
           ELSE re_parse_from(p,
                  IF i < Len(p) /\ p[i + 1] = "?" THEN i + 2 ELSE i + 1,
                  [acc EXCEPT ![Len(acc)].q = IF c = "*" THEN "star" ELSE "opt"])
      [] c = "^" -> re_parse_from(p, i + 1, Append(acc, [k |-> "bol", c |-> c, q |-> "one"]))
      [] c = "$" -> re_parse_from(p, i + 1, Append(acc, [k |-> "eol", c |-> c, q |-> "one"]))
      [] c = "." -> re_parse_from(p, i + 1, Append(acc, [k |-> "any", c |-> c, q |-> "one"]))
      [] OTHER   -> re_parse_from(p, i + 1, Append(acc, [k |-> "lit", c |-> c, q |-> "one"]))

re_compile(p) == re_parse_from(p, 1, <<>>)

\* One item against one character, ignoring case; '.' is any character but a
\* newline.
re_char(it, ch) ==
  IF it.k = "any" THEN ch # "\n" ELSE lower(it.c) = lower(ch)

\* Whether items[i..] match s from position j on (to any end).
RECURSIVE re_match_at(_, _, _, _)
re_match_at(items, i, s, j) ==
  IF i > Len(items) THEN TRUE
  ELSE LET it == items[i] IN
    CASE it.k = "bol" -> j = 1 /\ re_match_at(items, i + 1, s, j)
      [] it.k = "eol" ->
           /\ j = Len(s) + 1 \/ (j = Len(s) /\ s[j] = "\n")
           /\ re_match_at(items, i + 1, s, j)
      [] it.q = "one" ->
           j <= Len(s) /\ re_char(it, s[j]) /\ re_match_at(items, i + 1, s, j + 1)
      [] it.q = "star" ->
           \/ re_match_at(items, i + 1, s, j)
           \/ j <= Len(s) /\ re_char(it, s[j]) /\ re_match_at(items, i, s, j + 1)
      [] OTHER ->
           \/ re_match_at(items, i + 1, s, j)
           \/ j <= Len(s) /\ re_char(it, s[j]) /\ re_match_at(items, i + 1, s, j + 1)

\* re.search: "error" (re.error raised), or whether the pattern matches
\* somewhere in s.
re_search(p, s) ==
  LET r == re_compile(p) IN
  IF ~r.ok THEN "error"
  ELSE IF \E j \in 1..(Len(s) + 1) : re_match_at(r.items, 1, s, j)
       THEN "match" ELSE "nomatch"

\* ------------------------------------------------------------------------
\* refresh's wildcard compiler.
\* ------------------------------------------------------------------------

_make_re(map_string) ==
  LET s1 == replace(strip(map_string), ".", <<"\n">>)
      s2 == replace(replace(s1, "*", <<".", "*">>), "?", <<".">>)
      s3 == replace(replace(s2, "^", <<"\\", "^">>), "$", <<"\\", "$">>)
  IN  <<"^">> \o replace(s3, "\n", <<"\\", ".">>) \o <<"$">>

\* ------------------------------------------------------------------------
\* Configuration keys and host constants.
\* ------------------------------------------------------------------------

OPT_GENRE_SEPARATOR == "join_genres"
OPT_MATCH_ENABLED == "genre_mapper_enabled"
OPT_MATCH_PAIRS == "genre_mapper_replacement_pairs"
OPT_MATCH_FIRST == "genre_mapper_apply_first_match_only"
OPT_MATCH_REGEX == "genre_mapper_use_regex"

\* The four keys migrate_settings moves, in its order.
mapping == <<OPT_MATCH_PAIRS, OPT_MATCH_FIRST, OPT_MATCH_ENABLED, OPT_MATCH_REGEX>>

\* picard.metadata.MULTI_VALUED_JOINER
MULTI_VALUED_JOINER == <<";", " ">>

VARIABLES
  plugin_config,   \* api.plugin_config: key -> value (None: a null value)
  global_setting,  \* api.global_config.setting raw values (None: key absent)
  pairs,           \* GenreMappingPairs.pairs: sequence of <<pattern, replacement>>
  metadata,        \* the record of the track being processed, None between tracks
  track,           \* "none", "loaded" (record built) or "processed" (processor ran)
  registered,      \* enable() has registered the processor and the options page
  migrations,      \* how many times migrate_settings has moved the legacy values
  last             \* the last call and what it did (history)

vars == <<plugin_config, global_setting, pairs, metadata, track, registered, migrations, last>>

\* ------------------------------------------------------------------------
\* refresh: build the Pair List from the pairs text.
\* ------------------------------------------------------------------------

\* pairs_split = re.compile(r"\r\n|\n\r|\n").split
RECURSIVE pairs_split_from(_, _, _)
pairs_split_from(s, i, cur) ==
  IF i > Len(s) THEN <<cur>>
  ELSE IF startswith_at(s, i, <<"\r", "\n">>) THEN <<cur>> \o pairs_split_from(s, i + 2, <<>>)
  ELSE IF startswith_at(s, i, <<"\n", "\r">>) THEN <<cur>> \o pairs_split_from(s, i + 2, <<>>)
  ELSE IF s[i] = "\n" THEN <<cur>> \o pairs_split_from(s, i + 1, <<>>)
  ELSE pairs_split_from(s, i + 1, Append(cur, s[i]))

pairs_split(s) == pairs_split_from(s, 1, <<>>)

\* pair.rsplit('=', 1): cut at the last '='.
split_pair_last(pair) ==
  LET ix == CHOOSE k \in 1..Len(pair) :
              pair[k] = "=" /\ \A j \in (k + 1)..Len(pair) : pair[j] # "="
  IN  <<SubSeq(pair, 1, ix - 1), Tail_from(pair, ix + 1)>>

\* pair.split('=', 1) of a pair that holds an '=': cut at the first one.
split_pair(pair) ==
  LET ix == CHOOSE k \in 1..Len(pair) :
              pair[k] = "=" /\ \A j \in 1..(k - 1) : pair[j] # "="
  IN  <<SubSeq(pair, 1, ix - 1), Tail_from(pair, ix + 1)>>

\* The pattern compiled from the wildcard syntax in both modes.
make_pattern_always_compiled(original, use_regex) == _make_re(original)

\* The pattern stored for an original: verbatim in regex mode, compiled from
\* the wildcard syntax otherwise.
make_pattern(original, use_regex) ==
  IF use_regex THEN original ELSE _make_re(original)

\* The loop over the lines of the pairs text.
RECURSIVE build_pairs(_, _)
build_pairs(lines, use_regex) ==
  IF lines = <<>> THEN <<>>
  ELSE LET pair == Head(lines)
           rest == build_pairs(Tail(lines), use_regex)
       IN  IF ~\E k \in 1..Len(pair) : pair[k] = "=" THEN rest
           ELSE LET original == strip(split_pair(pair)[1])
                    replacement == strip(split_pair(pair)[2])
                IN  IF original = <<>> THEN rest
                    ELSE <<<<make_pattern(original, use_regex), replacement>>>> \o rest

\* GenreMapper.refresh: the new value of GenreMappingPairs.pairs.
refresh(config, old_pairs) ==
  IF config[OPT_MATCH_PAIRS] = None THEN old_pairs
  ELSE build_pairs(pairs_split(config[OPT_MATCH_PAIRS]), config[OPT_MATCH_REGEX])

\* ------------------------------------------------------------------------
\* track_genre_mapper
\* ------------------------------------------------------------------------

\* The inner loop without the break on OPT_MATCH_FIRST.
RECURSIVE map_genre_from_no_break(_, _, _, _, _)
map_genre_from_no_break(genre, ps, i, first_only, errors) ==
  IF i > Len(ps) THEN [genre |-> genre, errors |-> errors]
  ELSE LET found == IF genre = <<>> THEN "nomatch" ELSE re_search(ps[i][1], genre)
       IN  IF found = "error" THEN map_genre_from_no_break(genre, ps, i + 1, first_only, errors + 1)
           ELSE IF found = "match" THEN map_genre_from_no_break(ps[i][2], ps, i + 1, first_only, errors)
           ELSE map_genre_from_no_break(genre, ps, i + 1, first_only, errors)

\* The inner loop testing an empty working value too.
RECURSIVE map_genre_from_unguarded(_, _, _, _, _)
map_genre_from_unguarded(genre, ps, i, first_only, errors) ==
  IF i > Len(ps) THEN [genre |-> genre, errors |-> errors]
  ELSE LET found == re_search(ps[i][1], genre)
       IN  IF found = "error" THEN map_genre_from_unguarded(genre, ps, i + 1, first_only, errors + 1)
           ELSE IF found = "match"
                THEN IF first_only THEN [genre |-> ps[i][2], errors |-> errors]
                     ELSE map_genre_from_unguarded(ps[i][2], ps, i + 1, first_only, errors)
           ELSE map_genre_from_unguarded(genre, ps, i + 1, first_only, errors)

\* The inner loop with the try around the whole loop: an invalid pattern ends
\* the token's scan.
RECURSIVE map_genre_from_try_outside(_, _, _, _, _)
map_genre_from_try_outside(genre, ps, i, first_only, errors) ==
  IF i > Len(ps) THEN [genre |-> genre, errors |-> errors]
  ELSE LET found == IF genre = <<>> THEN "nomatch" ELSE re_search(ps[i][1], genre)
       IN  IF found = "error" THEN [genre |-> genre, errors |-> errors + 1]
           ELSE IF found = "match"
                THEN IF first_only THEN [genre |-> ps[i][2], errors |-> errors]
                     ELSE map_genre_from_try_outside(ps[i][2], ps, i + 1, first_only, errors)
           ELSE map_genre_from_try_outside(genre, ps, i + 1, first_only, errors)

\* The inner loop: one genre token through the pairs from index i on.
\* Returns the token's final value and the number of errors logged.
RECURSIVE map_genre_from(_, _, _, _, _)
map_genre_from(genre, ps, i, first_only, errors) ==
  IF i > Len(ps) THEN [genre |-> genre, errors |-> errors]
  ELSE LET original == ps[i][1]
           replacement == ps[i][2]
           found == IF genre = <<>> THEN "nomatch" ELSE re_search(original, genre)
       IN  IF found = "error" THEN map_genre_from(genre, ps, i + 1, first_only, errors + 1)
           ELSE IF found = "match"
                THEN IF first_only THEN [genre |-> replacement, errors |-> errors]
                     ELSE map_genre_from(replacement, ps, i + 1, first_only, errors)
           ELSE map_genre_from(genre, ps, i + 1, first_only, errors)

map_genre(genre, ps, first_only) == map_genre_from(genre, ps, 1, first_only, 0)

\* "; ".join(values): what metadata['genre'] reads for a multi-valued tag.
RECURSIVE join(_, _)
join(values, sep) ==
  IF values = <<>> THEN <<>>
  ELSE IF Len(values) = 1 THEN values[1]
  ELSE values[1] \o sep \o join(Tail(values), sep)

metadata_getitem(md) == join(md.genre, MULTI_VALUED_JOINER)

\* The genres collected without title-casing them.
collect_genres_raw(finals) ==
  {finals[i].genre : i \in {k \in 1..Len(finals) : finals[k].genre # <<>>}}

\* The genres collected from the tokens' final values: a set of title-cased str.
collect_genres(finals) ==
  {title(finals[i].genre) : i \in {k \in 1..Len(finals) : finals[k].genre # <<>>}}

\* The whole call without the test of OPT_MATCH_ENABLED.
track_genre_mapper_always(config, ps, md) ==
  IF md.genre = <<>> \/ metadata_getitem(md) = <<>>
    THEN [metadata |-> md, wrote |-> FALSE, tokens |-> <<>>, finals |-> <<>>]
  ELSE LET genre_joiner == IF config[OPT_GENRE_SEPARATOR] # <<>>
                             THEN config[OPT_GENRE_SEPARATOR] ELSE MULTI_VALUED_JOINER
           metadata_genres == split(metadata_getitem(md), genre_joiner)
           finals == [i \in 1..Len(metadata_genres) |->
                        map_genre(metadata_genres[i], ps, config[OPT_MATCH_FIRST])]
       IN  [metadata |-> [md EXCEPT !.genre = sorted(collect_genres(finals))],
            wrote |-> TRUE, tokens |-> metadata_genres, finals |-> finals]

\* The whole call: the record afterwards and the history of the call.
track_genre_mapper(config, ps, md) ==
  IF ~config[OPT_MATCH_ENABLED]
    THEN [metadata |-> md, wrote |-> FALSE, tokens |-> <<>>, finals |-> <<>>]
  ELSE IF md.genre = <<>> \/ metadata_getitem(md) = <<>>
    THEN [metadata |-> md, wrote |-> FALSE, tokens |-> <<>>, finals |-> <<>>]
  ELSE LET genre_joiner == IF config[OPT_GENRE_SEPARATOR] # <<>>
                             THEN config[OPT_GENRE_SEPARATOR] ELSE MULTI_VALUED_JOINER
           metadata_genres == split(metadata_getitem(md), genre_joiner)
           finals == [i \in 1..Len(metadata_genres) |->
                        map_genre(metadata_genres[i], ps, config[OPT_MATCH_FIRST])]
       IN  [metadata |-> [md EXCEPT !.genre = sorted(collect_genres(finals))],
            wrote |-> TRUE, tokens |-> metadata_genres, finals |-> finals]

\* ------------------------------------------------------------------------
\* migrate_settings
\* ------------------------------------------------------------------------

\* Whether migrate_settings goes past its early return.
migrate_runs(config, setting) ==
  ~(setting[OPT_MATCH_PAIRS] = None
      \/ (config[OPT_MATCH_PAIRS] # None /\ config[OPT_MATCH_PAIRS] # <<>>))

\* A flag as the legacy store holds it.
raw_true == <<"t", "r", "u", "e">>

\* raw_value(key, qtype=qtype): the pairs text as str, a flag as bool.
raw_value(setting, key) ==
  IF key = OPT_MATCH_PAIRS THEN setting[key] ELSE setting[key] = raw_true

\* The loop without the removal from the legacy store.
RECURSIVE migrate_from_keep(_, _, _)
migrate_from_keep(config, setting, i) ==
  IF i > Len(mapping) THEN [config |-> config, setting |-> setting]
  ELSE LET key == mapping[i] IN
       IF setting[key] = None THEN migrate_from_keep(config, setting, i + 1)
       ELSE migrate_from_keep([config EXCEPT ![key] = raw_value(setting, key)], setting, i + 1)

\* The loop over mapping from index i on: copy each key the legacy store
\* holds and remove it there.
RECURSIVE migrate_from(_, _, _)
migrate_from(config, setting, i) ==
  IF i > Len(mapping) THEN [config |-> config, setting |-> setting]
  ELSE LET key == mapping[i] IN
       IF setting[key] = None THEN migrate_from(config, setting, i + 1)
       ELSE migrate_from([config EXCEPT ![key] = raw_value(setting, key)],
                         [setting EXCEPT ![key] = None], i + 1)

migrate_settings(config, setting) ==
  IF migrate_runs(config, setting) THEN migrate_from(config, setting, 1)
  ELSE [config |-> config, setting |-> setting]

\* ------------------------------------------------------------------------
\* Inputs.
\* ------------------------------------------------------------------------

MaxPairs == 2       \* lines in a pairs text
MaxGenres == 2      \* values in a track's genre list
MaxPatternLen == 2  \* characters in an enumerated original
MaxTokenLen == 2    \* characters in an enumerated genre token
MigrationCap == 2   \* the migrations counter saturates here

SeqsUpTo(A, n) == UNION {[1..k -> A] : k \in 0..n}

\* A pairs text of the lines ORIGINAL=REPLACEMENT, "\n" between them.
RECURSIVE lines_text(_)
lines_text(ls) ==
  IF ls = <<>> THEN <<>>
  ELSE IF Len(ls) = 1 THEN ls[1][1] \o <<"=">> \o ls[1][2]
  ELSE ls[1][1] \o <<"=">> \o ls[1][2] \o <<"\n">> \o lines_text(Tail(ls))

TextsOf(originals, replacements, n) ==
  {lines_text(ls) : ls \in SeqsUpTo(originals \X replacements, n)}

\* The rewriter's inputs: two originals that both match the tokens "a" and
\* "A" as wildcards, "*" matching every token (the empty one too) and being
\* no valid regular expression; an empty replacement, and one that the
\* original "a" matches in turn.
MapOriginals == {<<"a">>, <<"*">>}
MapReplacements == {<<>>, <<"a">>}
MapTexts == TextsOf(MapOriginals, MapReplacements, MaxPairs)
MapTokens == {<<>>, <<"a">>, <<"A">>, <<"b">>}
MapGenres == SeqsUpTo(MapTokens, MaxGenres)

\* ------------------------------------------------------------------------
\* The plugin as a state machine.  The host is single-threaded: it builds a
\* track's record, runs the processor on it and lets go of it before the
\* next event (a save, an enable, the next track).
\* ------------------------------------------------------------------------

ConfigKeys == {OPT_GENRE_SEPARATOR, OPT_MATCH_PAIRS, OPT_MATCH_FIRST,
               OPT_MATCH_ENABLED, OPT_MATCH_REGEX}

LegacyKeys == {mapping[i] : i \in 1..Len(mapping)}

\* The options as enable() registers them, with the host's separator.
registered_defaults(separator) ==
  [k \in ConfigKeys |->
     CASE k = OPT_GENRE_SEPARATOR -> separator
       [] k = OPT_MATCH_PAIRS -> <<>>
       [] OTHER -> FALSE]

\* A legacy store: each of the four keys absent (None) or set, a flag as the
\* text the 2.x version stored for it.
LegacyStores(texts) ==
  {[k \in LegacyKeys |->
      CASE k = OPT_MATCH_PAIRS -> t [] k = OPT_MATCH_FIRST -> f
        [] k = OPT_MATCH_ENABLED -> e [] OTHER -> r] :
     t \in texts \cup {None}, f \in {None, raw_true}, e \in {None, raw_true},
     r \in {None, raw_true}}

no_legacy == [k \in LegacyKeys |-> None]

InitWith(separators, legacy) ==
  /\ plugin_config \in {registered_defaults(s) : s \in separators}
  /\ global_setting \in legacy
  /\ pairs = <<>>
  /\ metadata = None
  /\ track = "none"
  /\ registered = FALSE
  /\ migrations = 0
  /\ last = [op |-> "init"]

\* enable(api): register the options, migrate, refresh, register the
\* processor and the options page.
Enable ==
  LET runs == migrate_runs(plugin_config, global_setting)
      m == migrate_settings(plugin_config, global_setting)
  IN  /\ track = "none"
      /\ plugin_config' = m.config
      /\ global_setting' = m.setting
      /\ pairs' = refresh(m.config, pairs)
      /\ registered' = TRUE
      /\ migrations' = IF runs /\ migrations < MigrationCap
                         THEN migrations + 1 ELSE migrations
      /\ last' = [op |-> "enable", migrated |-> runs,
                  config |-> plugin_config, setting |-> global_setting]
      /\ UNCHANGED <<metadata, track>>

\* GenreMapperOptionsPage.save with the form's four values.
save(text, first, enabled, regex) ==
  LET config == [plugin_config EXCEPT ![OPT_MATCH_PAIRS] = text,
                                      ![OPT_MATCH_FIRST] = first,
                                      ![OPT_MATCH_ENABLED] = enabled,
                                      ![OPT_MATCH_REGEX] = regex]
  IN  /\ registered
      /\ track = "none"
      /\ plugin_config' = config
      /\ pairs' = refresh(config, pairs)
      /\ last' = [op |-> "save"]
      /\ UNCHANGED <<global_setting, metadata, track, registered, migrations>>

\* The host builds the record of the next track, with its genre values.
load_track(genres) ==
  /\ registered
  /\ track = "none"
  /\ metadata' = [title |-> <<"t">>, genre |-> genres]
  /\ track' = "loaded"
  /\ last' = [op |-> "load"]
  /\ UNCHANGED <<plugin_config, global_setting, pairs, registered, migrations>>

\* The host runs the registered processor on the track's record.
TrackGenreMapper ==
  LET r == track_genre_mapper(plugin_config, pairs, metadata)
  IN  /\ track = "loaded"
      /\ metadata' = r.metadata
      /\ track' = "processed"
      /\ last' = [op |-> "mapper", genre |-> metadata.genre, wrote |-> r.wrote,
                  tokens |-> r.tokens, finals |-> r.finals]
      /\ UNCHANGED <<plugin_config, global_setting, pairs, registered, migrations>>

\* The host is done with the track.
ReleaseTrack ==
  /\ track = "processed"
  /\ metadata' = None
  /\ track' = "none"
  /\ last' = [op |-> "release"]
  /\ UNCHANGED <<plugin_config, global_setting, pairs, registered, migrations>>

\* The host's store comes to hold no readable pairs text: the case refresh
\* tests for before it reads the text.
PairsSettingLost ==
  /\ registered
  /\ track = "none"
  /\ plugin_config[OPT_MATCH_PAIRS] # None
  /\ plugin_config' = [plugin_config EXCEPT ![OPT_MATCH_PAIRS] = None]
  /\ last' = [op |-> "host"]
  /\ UNCHANGED <<global_setting, pairs, metadata, track, registered, migrations>>

\* The rewriter over overlapping pairs and small genre lists.
Init == InitWith({<<>>}, {no_legacy})

Save == \E t \in MapTexts, f \in BOOLEAN, e \in BOOLEAN, r \in BOOLEAN : save(t, f, e, r)

LoadTrack == \E g \in MapGenres : load_track(g)

Next == Enable \/ Save \/ LoadTrack \/ TrackGenreMapper \/ ReleaseTrack

Spec == Init /\ [][Next]_vars

\* ------------------------------------------------------------------------
\* Properties of the rewriter.
\* ------------------------------------------------------------------------

\* The last call was track_genre_mapper and it went through the genre tokens.
Mapped == last.op = "mapper" /\ last.wrote

\* The pairs, in Pair List order, whose pattern matches a token.
Matching(token) ==
  {k \in 1..Len(pairs) : re_search(pairs[k][1], token) = "match"}

Least(S) == CHOOSE k \in S : \A j \in S : k <= j

\* C1: with first-match-only enabled, a non-empty token ends as the
\* replacement of the first pair whose pattern matches the original token,
\* and keeps its value when no pair matches.
FirstMatchOnly ==
  (Mapped /\ plugin_config[OPT_MATCH_FIRST]) =>
    \A i \in 1..Len(last.tokens) :
      last.tokens[i] # <<>> =>
        last.finals[i].genre =
          IF Matching(last.tokens[i]) = {} THEN last.tokens[i]
          ELSE pairs[Least(Matching(last.tokens[i]))][2]

\* A token two pairs match, the second one matching the first one's
\* replacement too and replacing it by something else.
FirstMatchOnlyWitness ==
  /\ Mapped /\ plugin_config[OPT_MATCH_FIRST]
  /\ Len(pairs) = 2
  /\ \E i \in 1..Len(last.tokens) :
       /\ last.tokens[i] # <<>>
       /\ Matching(last.tokens[i]) = {1, 2}
       /\ pairs[1][2] # <<>>
       /\ re_search(pairs[2][1], pairs[1][2]) = "match"
       /\ pairs[2][2] # pairs[1][2]
       /\ last.finals[i].genre = pairs[1][2]

\* The working values of a token along the pairs: value 0 is the token, value
\* k the value after pair k.  With guarded, a pair is tested only against a
\* non-empty value.
Cascade(token, guarded) ==
  LET v[k \in 0..Len(pairs)] ==
        IF k = 0 THEN token
        ELSE IF (guarded => v[k - 1] # <<>>)
                  /\ re_search(pairs[k][1], v[k - 1]) = "match"
             THEN pairs[k][2] ELSE v[k - 1]
  IN  v[Len(pairs)]

\* C2 as stated, for the tokens that come in non-empty: with first-match-only
\* disabled a token ends as the fold of the pairs over its working value, an
\* emptied value being tested against the later pairs like any other.
CascadeThroughEmpty ==
  (Mapped /\ ~plugin_config[OPT_MATCH_FIRST]) =>
    \A i \in 1..Len(last.tokens) :
      last.tokens[i] # <<>> =>
        last.finals[i].genre = Cascade(last.tokens[i], FALSE)

\* C2 amended: with first-match-only disabled a token ends as the fold of the
\* pairs over its working value, each pair tested against the current value
\* only while that value is non-empty: an empty token, and a token an earlier
\* replacement emptied, stays empty.
CascadeWhileNonEmpty ==
  (Mapped /\ ~plugin_config[OPT_MATCH_FIRST]) =>
    \A i \in 1..Len(last.tokens) :
      last.finals[i].genre = Cascade(last.tokens[i], TRUE)

\* A token two pairs replace one after the other, the second one matching
\* the first one's replacement and not the token itself.
CascadeWitness ==
  /\ Mapped /\ ~plugin_config[OPT_MATCH_FIRST]
  /\ Len(pairs) = 2
  /\ \E i \in 1..Len(last.tokens) :
       /\ last.tokens[i] # <<>>
       /\ re_search(pairs[1][1], last.tokens[i]) = "match"
       /\ pairs[1][2] # <<>>
       /\ re_search(pairs[2][1], pairs[1][2]) = "match"
       /\ re_search(pairs[2][1], last.tokens[i]) # "match"
       /\ pairs[2][2] # pairs[1][2]
       /\ last.finals[i].genre = pairs[2][2]

\* C6: the genre list track_genre_mapper writes is in strictly increasing
\* lexicographic order, holds only non-empty title-cased final values of
\* input tokens, holds the title-cased value of every token that ends
\* non-empty, and is no longer than the list of tokens.
WrittenGenres ==
  Mapped =>
    LET out == metadata.genre IN
    /\ \A k \in 1..(Len(out) - 1) : str_less(out[k], out[k + 1])
    /\ \A k \in 1..Len(out) :
         /\ out[k] # <<>>
         /\ \E i \in 1..Len(last.tokens) :
              last.finals[i].genre # <<>> /\ out[k] = title(last.finals[i].genre)
    /\ \A i \in 1..Len(last.tokens) :
         last.finals[i].genre # <<>> =>
           \E k \in 1..Len(out) : out[k] = title(last.finals[i].genre)
    /\ Len(out) <= Len(last.tokens)

\* Two tokens written in the other order than they came in, title-cased.
WrittenGenresWitness ==
  /\ Mapped
  /\ Len(last.tokens) = 2 /\ Len(metadata.genre) = 2
  /\ metadata.genre[1] = title(last.finals[2].genre)
  /\ metadata.genre[2] = title(last.finals[1].genre)
  /\ metadata.genre[1] # last.finals[2].genre

\* C7: with the enable flag false a call of track_genre_mapper leaves the
\* record, the Pair List and both stores as they were.
DisabledLeavesAll ==
  [][(track = "loaded" /\ track' = "processed" /\ ~plugin_config[OPT_MATCH_ENABLED])
       => (metadata' = metadata /\ pairs' = pairs /\ plugin_config' = plugin_config
             /\ global_setting' = global_setting)]_vars

\* A disabled call on a record the enabled rewriter would have changed.
DisabledWitness ==
  /\ last.op = "mapper" /\ ~plugin_config[OPT_MATCH_ENABLED]
  /\ pairs # <<>>
  /\ metadata.genre = last.genre
  /\ track_genre_mapper([plugin_config EXCEPT ![OPT_MATCH_ENABLED] = TRUE],
                        pairs, metadata).metadata # metadata

\* The pairs whose pattern is a valid regular expression.
ValidPairs == SelectSeq(pairs, LAMBDA pr : re_compile(pr[1]).ok)

\* C8: in regex mode an invalid pattern is skipped, with an error logged, for
\* the token under test only: every token ends as it would with the invalid
\* pairs absent from the Pair List, and the genre field is written from
\* those values.
InvalidPairSkipped ==
  (last.op = "mapper" /\ plugin_config[OPT_MATCH_ENABLED]
     /\ plugin_config[OPT_MATCH_REGEX] /\ join(last.genre, MULTI_VALUED_JOINER) # <<>>) =>
    /\ last.wrote
    /\ \A i \in 1..Len(last.tokens) :
         /\ last.finals[i].genre =
              map_genre(last.tokens[i], ValidPairs, plugin_config[OPT_MATCH_FIRST]).genre
         /\ (last.tokens[i] # <<>> /\ pairs # <<>> /\ ~re_compile(pairs[1][1]).ok)
              => last.finals[i].errors >= 1
    /\ metadata.genre =
         sorted({title(g) : g \in
                   {map_genre(last.tokens[i], ValidPairs,
                              plugin_config[OPT_MATCH_FIRST]).genre :
                      i \in 1..Len(last.tokens)} \ {<<>>}})

\* An invalid pattern ahead of a valid pair that replaces a token.
InvalidPairWitness ==
  /\ Mapped /\ plugin_config[OPT_MATCH_REGEX]
  /\ Len(pairs) = 2
  /\ ~re_compile(pairs[1][1]).ok
  /\ re_compile(pairs[2][1]).ok
  /\ \E i \in 1..Len(last.tokens) :
       /\ last.tokens[i] # <<>>
       /\ last.finals[i].errors = 1
       /\ last.finals[i].genre = pairs[2][2]
       /\ last.finals[i].genre # last.tokens[i]

\* ------------------------------------------------------------------------
\* The pair-list builder over pairs texts of well- and ill-formed lines.
\* ------------------------------------------------------------------------

\* Lines: spaces to trim and a second '='; an empty original; no '='; an
\* empty replacement behind a leading carriage return, which after a "\n"
\* ending makes the "\n\r" separator.
ParseLines == {<<" ", "a", " ", "=", " ", "b", "=", "a", " ">>, <<"=", "a">>,
               <<"b">>, <<"\r", "b", "=">>}
LineEndings == {<<"\n">>, <<"\r", "\n">>}

RECURSIVE TextsOfLines(_)
TextsOfLines(n) ==
  IF n = 0 THEN {<<>>}
  ELSE IF n = 1 THEN ParseLines
  ELSE {t \o e \o l : t \in TextsOfLines(n - 1), e \in LineEndings, l \in ParseLines}

ParseTexts == UNION {TextsOfLines(n) : n \in 0..MaxPairs}

SaveParsed == \E t \in ParseTexts, r \in BOOLEAN : save(t, FALSE, FALSE, r)

NextParse == Enable \/ SaveParsed

SpecParse == Init /\ [][NextParse]_vars

\* The lines of a text, read off the positions of its "\n" characters.
Newlines(text) == {k \in 1..Len(text) : text[k] = "\n"}

LineCount(text) == Cardinality(Newlines(text)) + 1

\* The position of the j-th "\n" of the text (0 for j = 0, one past the end
\* after the last).
Cut(text, j) ==
  IF j = 0 THEN 0
  ELSE IF j > Cardinality(Newlines(text)) THEN Len(text) + 1
  ELSE CHOOSE k \in Newlines(text) :
         Cardinality({m \in Newlines(text) : m < k}) = j - 1

Line(text, j) == SubSeq(text, Cut(text, j - 1) + 1, Cut(text, j) - 1)

\* A str without its leading and trailing whitespace (a carriage return a
\* line ending left behind included).
Trimmed(x) ==
  LET inked == {k \in 1..Len(x) : x[k] \notin Whitespace} IN
  IF inked = {} THEN <<>>
  ELSE SubSeq(x, CHOOSE k \in inked : \A m \in inked : k <= m,
                 CHOOSE k \in inked : \A m \in inked : k >= m)

Equals(x) == {k \in 1..Len(x) : x[k] = "="}

FirstEquals(x) == CHOOSE k \in Equals(x) : \A m \in Equals(x) : k <= m

OriginalOf(x) == Trimmed(SubSeq(x, 1, FirstEquals(x) - 1))

ReplacementOf(x) == Trimmed(SubSeq(x, FirstEquals(x) + 1, Len(x)))

\* The lines that make a pair: an '=' and a non-empty original.
PairLines(text) ==
  {j \in 1..LineCount(text) :
     Equals(Line(text, j)) # {} /\ OriginalOf(Line(text, j)) # <<>>}

\* The n-th pair line.
PairLine(text, n) ==
  CHOOSE j \in PairLines(text) :
    Cardinality({m \in PairLines(text) : m < j}) = n - 1

\* The Pair List a text stands for: one pair per pair line, in their order,
\* the original stored as the mode's pattern for it.
PairsOf(text, use_regex) ==
  [n \in 1..Cardinality(PairLines(text)) |->
     LET x == Line(text, PairLine(text, n)) IN
     <<IF use_regex THEN OriginalOf(x) ELSE _make_re(OriginalOf(x)),
       ReplacementOf(x)>>]

\* C3: refresh builds one pair per line that has an '=' and a non-empty
\* trimmed original, in the lines' order, from the trimmed text before the
\* first '=' and the trimmed text after it.
PairListParsed ==
  (last.op \in {"save", "enable"} /\ plugin_config[OPT_MATCH_PAIRS] # None) =>
    pairs = PairsOf(plugin_config[OPT_MATCH_PAIRS], plugin_config[OPT_MATCH_REGEX])

\* Two pair lines, a carriage return between them, the first with a second
\* '=' that stays in its replacement.
PairListParsedWitness ==
  /\ last.op = "save"
  /\ plugin_config[OPT_MATCH_REGEX]
  /\ \E k \in 1..Len(plugin_config[OPT_MATCH_PAIRS]) :
       plugin_config[OPT_MATCH_PAIRS][k] = "\r"
  /\ pairs = <<<<<<"a">>, <<"b", "=", "a">>>>, <<<<"b">>, <<>>>>>>

\* ------------------------------------------------------------------------
\* One pair against one token, over every original and every token of a few
\* characters.
\* ------------------------------------------------------------------------

PatternChars == {"a", ".", "^", "$", "*", "?"}
TokenChars == {"a", "A", ".", "^", "$", "\n"}

MatchOriginals == SeqsUpTo(PatternChars, MaxPatternLen) \ {<<>>}
MatchTokens == SeqsUpTo(TokenChars, MaxTokenLen) \ {<<>>}

SaveOnePair ==
  \E o \in MatchOriginals, r \in BOOLEAN : save(o \o <<"=", "b">>, FALSE, TRUE, r)

LoadOneToken == \E t \in MatchTokens : load_track(<<t>>)

NextMatch == Enable \/ SaveOnePair \/ LoadOneToken \/ TrackGenreMapper \/ ReleaseTrack

SpecMatch == Init /\ [][NextMatch]_vars

\* Whether the wildcard w from position i on stands for the whole of s from
\* position j on: '*' for any run of characters, '?' for any one character,
\* any other character for itself in either case.
RECURSIVE wild_from(_, _, _, _)
wild_from(w, i, s, j) ==
  IF i > Len(w) THEN j > Len(s)
  ELSE CASE w[i] = "*" ->
              wild_from(w, i + 1, s, j) \/ (j <= Len(s) /\ wild_from(w, i, s, j + 1))
         [] w[i] = "?" -> j <= Len(s) /\ wild_from(w, i + 1, s, j + 1)
         [] OTHER -> j <= Len(s) /\ lower(w[i]) = lower(s[j])
                       /\ wild_from(w, i + 1, s, j + 1)

WildcardMatches(w, s) == wild_from(w, 1, s, 1)

\* The last call mapped one non-empty token through the one pair a one-line
\* pairs text made.
OneOnOne ==
  /\ Mapped
  /\ plugin_config[OPT_MATCH_PAIRS] # None
  /\ LineCount(plugin_config[OPT_MATCH_PAIRS]) = 1
  /\ Len(pairs) = 1
  /\ Len(last.tokens) = 1
  /\ last.tokens[1] # <<>>
  /\ last.tokens[1] # pairs[1][2]

TheOriginal == OriginalOf(plugin_config[OPT_MATCH_PAIRS])

Replaced == last.finals[1].genre = pairs[1][2]

\* C4: in wildcard mode the pair replaces the token exactly when the whole
\* token matches the original read as a wildcard, ignoring case.
WildcardWholeToken ==
  (OneOnOne /\ ~plugin_config[OPT_MATCH_REGEX]) =>
    (Replaced <=> WildcardMatches(TheOriginal, last.tokens[1]))

\* Whether s holds the literal text p somewhere, ignoring case.
Contains(s, p) ==
  \E j \in 1..(Len(s) - Len(p) + 1) :
    \A k \in 1..Len(p) : lower(s[j + k - 1]) = lower(p[k])

Literal(p) == \A k \in 1..Len(p) : p[k] \in Letters

\* C5 as stated, for regex mode and an original of letters only: the pair
\* replaces the token only when the original is the whole token.
RegexWholeToken ==
  (OneOnOne /\ plugin_config[OPT_MATCH_REGEX] /\ Literal(TheOriginal)) =>
    (Replaced => WildcardMatches(TheOriginal, last.tokens[1]))

\* C5 amended: only wildcard mode anchors.  There the stored pattern is the
\* compiled original between '^' and '$'.  In regex mode the stored pattern
\* is the original as written and is searched for anywhere in the token: an
\* original of letters only replaces every token that holds it.
AnchoredInWildcardModeOnly ==
  /\ (last.op = "save" /\ ~plugin_config[OPT_MATCH_REGEX]) =>
       \A k \in 1..Len(pairs) :
         /\ Len(pairs[k][1]) >= 2
         /\ Head(pairs[k][1]) = "^"
         /\ pairs[k][1][Len(pairs[k][1])] = "$"
  /\ (last.op = "save" /\ plugin_config[OPT_MATCH_REGEX] /\ Len(pairs) = 1) =>
       pairs[1][1] = TheOriginal
  /\ (OneOnOne /\ plugin_config[OPT_MATCH_REGEX] /\ Literal(TheOriginal)) =>
       (Replaced <=> Contains(last.tokens[1], TheOriginal))

\* In regex mode, an original of letters only replaces a longer token that
\* holds it.
AnchoredWitness ==
  /\ OneOnOne /\ plugin_config[OPT_MATCH_REGEX] /\ Literal(TheOriginal)
  /\ Len(last.tokens[1]) > Len(TheOriginal)
  /\ Replaced

\* ------------------------------------------------------------------------
\* Enabling, saving and the stores: a legacy store to migrate, a store that
\* loses its pairs text, and a configured genre separator.
\* ------------------------------------------------------------------------

LegacyTexts == {<<>>, <<"a", "=", "a">>}
SessionTexts == {<<>>, <<"a", "=">>}
SessionGenres == {<<<<"a">>, <<"b">>>>, <<<<"a", "/", "b">>>>}

InitMigrate == InitWith({<<>>, <<"/">>}, LegacyStores(LegacyTexts))

SaveSession ==
  \E t \in SessionTexts, f \in BOOLEAN, e \in BOOLEAN, r \in BOOLEAN : save(t, f, e, r)

LoadSession == \E g \in SessionGenres : load_track(g)

NextMigrate ==
  Enable \/ SaveSession \/ PairsSettingLost \/ LoadSession \/ TrackGenreMapper
    \/ ReleaseTrack

SpecMigrate == InitMigrate /\ [][NextMigrate]_vars

\* C9 as stated: after every call of refresh the Pair List is the list the
\* pairs text read at that call stands for, the empty list for an absent
\* (null) text.
RefreshReplaces ==
  last.op \in {"save", "enable"} =>
    pairs = IF plugin_config[OPT_MATCH_PAIRS] = None THEN <<>>
            ELSE PairsOf(plugin_config[OPT_MATCH_PAIRS], plugin_config[OPT_MATCH_REGEX])

\* C10: the legacy values are migrated at most once.  The call that migrates
\* found the plugin's pairs text empty or null and a legacy pairs text, copied
\* every value the legacy store held and left that store empty; once that
\* has happened the legacy store stays empty, and a call that does not
\* migrate leaves both stores as they were.
MigratesOnce ==
  /\ migrations <= 1
  /\ migrations = 1 => \A k \in LegacyKeys : global_setting[k] = None
  /\ (last.op = "enable" /\ last.migrated) =>
       /\ last.setting[OPT_MATCH_PAIRS] # None
       /\ last.config[OPT_MATCH_PAIRS] \in {None, <<>>}
       /\ \A k \in LegacyKeys :
            /\ global_setting[k] = None
            /\ plugin_config[k] =
                 IF last.setting[k] = None THEN last.config[k]
                 ELSE IF k = OPT_MATCH_PAIRS THEN last.setting[k]
                 ELSE last.setting[k] = <<"t", "r", "u", "e">>
       /\ plugin_config[OPT_GENRE_SEPARATOR] = last.config[OPT_GENRE_SEPARATOR]
  /\ (last.op = "enable" /\ ~last.migrated) =>
       /\ plugin_config = last.config
       /\ global_setting = last.setting

\* An enable after the migration and after the user saved an empty pairs
\* text again: nothing left to migrate, the saved values stay.
MigratesOnceWitness ==
  /\ migrations = 1
  /\ last.op = "enable" /\ ~last.migrated
  /\ plugin_config[OPT_MATCH_PAIRS] = <<>>
  /\ ~plugin_config[OPT_MATCH_ENABLED]
  /\ pairs = <<>>

====
